---------------------------- MODULE Spec2Model ----------------------------
(***************************************************************************)
(* A model of src/main.py, the AMD GPU monitor: the two backend sources    *)
(* (_get_amdsmi_metrics, _get_rocm_smi_metrics), the energy integration    *)
(* (_calculate_energy_consumption), the report (_generate_report) and the  *)
(* session loop (monitor).                                                 *)
(*                                                                         *)
(* The module holds several specifications over one set of variables, one  *)
(* per layer of the program; the variables of the other layers stay at     *)
(* their idle values:                                                      *)
(*   SpecEnergy  the loop of _calculate_energy_consumption, one iteration  *)
(*               per action, its records drawn as the loop reads them;     *)
(*   SpecDevice  the body of the per-device loops of the two sources, one  *)
(*               backend call per action;                                  *)
(*   SpecSample  the call frames of the two sources (pure operators);      *)
(*   SpecReport  _generate_report applied to record stream files;          *)
(*   Spec        the session: main, __init__, monitor.                     *)
(*                                                                         *)
(* Conventions.  Python's None is <<>> and a present value x is <<x>>.     *)
(* Floats are exact rationals: a reading is an integer, the tick           *)
(* resolution is an integer number of 1/1000 uJ (15.259 uJ is 15259), and  *)
(* a quotient is kept as num / (mant * 10^exp).  Rounding of binary        *)
(* floating point is not modelled.                                         *)
(***************************************************************************)
EXTENDS Integers, Sequences, FiniteSets, TLC

(***************************************************************************)
(* Bounds of the model.                                                    *)
(***************************************************************************)
\* Most devices a bookend or a sample holds.
MaxGpus == 2
\* Largest value of the hardware energy counter.
MaxCounter == 2
\* Largest reading (watts, degrees, percent, MHz, bytes) a backend reports.
MaxReading == 1
\* Most entries (keys carrying a value, narrow calls that raise) of the
\* payloads one device gets from its backend in one sample.
MaxEntries == 2
\* Most lines of a record stream file _generate_report reads.
MaxLines == 3
\* Most ticks of a session.
MaxTicks == 1

(***************************************************************************)
(* Program constants.                                                      *)
(***************************************************************************)
\* 15.3 uJ per tick, in 1/1000 uJ (main.py line 156).
RESOLUTION_GPU_METRICS == 15300
\* 15.259 uJ per tick, in 1/1000 uJ (main.py lines 218, 290, 303, 317).
RESOLUTION_DEFAULT == 15259
\* 1.0 uJ per tick, in 1/1000 uJ (main.py line 331).
RESOLUTION_UJ == 1000
\* 3_600_000_000 uJ per Wh is UJ_PER_WH_MANT * 10^UJ_PER_WH_EXP (line 399).
UJ_PER_WH_MANT == 36
UJ_PER_WH_EXP == 8
\* A resolution is held in 1/1000 uJ: 10^RESOLUTION_EXP of them make 1 uJ.
RESOLUTION_EXP == 3
\* amdsmi_get_temp_metric reports millidegrees (line 177).
MILLIDEGREES == 1000
\* vram_total defaults to 1 (line 228); the ratio is scaled by 100 (line 230).
VRAM_TOTAL_DEFAULT == 1
PERCENT == 100

(***************************************************************************)
(* Optional values and exact rationals.                                    *)
(***************************************************************************)
None == <<>>
Some(x) == <<x>>
IsNone(o) == o = <<>>
Val(o) == o[1]

\* num / (mant * 10^exp); every zero is RatZero.
RatZero == [num |-> 0, mant |-> 1, exp |-> 0]
RatNorm(q) == IF q.num = 0 THEN RatZero ELSE q
Rat(n) == RatNorm([num |-> n, mant |-> 1, exp |-> 0])
\* q / (mant * 10^exp)
RatDiv(q, mant, exp) ==
    RatNorm([num |-> q.num, mant |-> q.mant * mant, exp |-> q.exp + exp])
Pow10(n) == IF n = 0 THEN 1 ELSE IF n = 1 THEN 10 ELSE IF n = 2 THEN 100 ELSE 1000
\* a + b, for operands over one denominator or over denominators that
\* differ by a small power of ten or by the mantissa.
RatAdd(a, b) ==
    IF a.num = 0 THEN RatNorm(b)
    ELSE IF b.num = 0 THEN RatNorm(a)
    ELSE IF a.mant = b.mant /\ a.exp = b.exp
         THEN RatNorm([num |-> a.num + b.num, mant |-> a.mant, exp |-> a.exp])
    ELSE RatNorm([num  |-> a.num * b.mant * Pow10(b.exp) + b.num * a.mant * Pow10(a.exp),
                  mant |-> a.mant * b.mant,
                  exp  |-> a.exp + b.exp])
\* a < b for rationals over one denominator.
RatLess(a, b) == a.num * b.mant * Pow10(b.exp) < b.num * a.mant * Pow10(a.exp)

(***************************************************************************)
(* GPUMetrics, the record of one device at one instant.                    *)
(***************************************************************************)
GPUMetrics(gpu_id, timestamp) ==
    [gpu_id              |-> gpu_id,
     timestamp           |-> timestamp,
     power_watts         |-> None,
     temperature_celsius |-> None,
     utilization_percent |-> None,
     vram_usage_percent  |-> None,
     sclk_mhz            |-> None,
     mclk_mhz            |-> None,
     energy_accumulator  |-> None,
     counter_resolution  |-> None]

GpuIds == 0 .. (MaxGpus - 1)
Resolutions == {RESOLUTION_GPU_METRICS, RESOLUTION_DEFAULT, RESOLUTION_UJ}
\* The result of final_lookup.get(...) when the device has no final record.
NoFinal == [gpu_id |-> -1]
\* The value of a local that is not bound.
Unbound == [gpu_id |-> -2]

VARIABLES
    \* ---- _calculate_energy_consumption ----
    e_pc,             \* "idle", "loop" (before an iteration), "return"
    e_left,           \* records of initial_metrics not yet iterated
    initial,          \* the loop variable of line 386
    final,            \* final_lookup.get(initial.gpu_id), line 387
    energy_wh,        \* the local of line 399, None when the branch is not taken
    total_energy_wh,  \* the accumulator of line 381
    \* ---- the per-device loop bodies of the two sources ----
    d_pc,             \* "idle", "call" (before the body runs), "done", "raised"
    d_src,            \* "amdsmi" or "rocm_smi" once the body ran
    d_env,            \* what the backend answered for this device
    metrics,          \* the GPUMetrics the body built (lines 109, 271)
    \* ---- one call of a source ----
    s_pc,             \* "idle", "call", "returned", "raised"
    s_src,            \* "amdsmi" or "rocm_smi" once the call was made
    s_available,      \* self.amdsmi_available or self.rocm_smi_available
    s_env,            \* what the backend answered
    s_result,         \* what the call returned or raised
    \* ---- one call of _generate_report ----
    r_pc,             \* "idle", "call", "read" (in the loop of line 419), "returned", "raised"
    r_exists,         \* whether the record stream file exists
    r_file,           \* the lines of the file read so far
    r_acc,            \* gpu_ids, timestamp_data, all_power, all_temp, all_util
    r_report,         \* the report printed, None when there is none
    r_exc,            \* the exception the call raised, or ""
    \* ---- the session ----
    pc,               \* "idle", "main", "monitor", "initial", "loop", "sleep", "finally", "exited"
    ENABLE_AMDSMI,    \* line 13
    ENABLE_ROCM_SMI,  \* line 14
    amdsmi_available, \* self.amdsmi_available
    rocm_smi_available, \* self.rocm_smi_available
    methods,          \* line 549
    idx,              \* the position in methods of the for loop that is running
    initial_metrics,  \* line 562, None for a method with no entry
    files,            \* the record stream file of each method
    final_metrics,    \* line 615/617 for each method, None before it is sampled
    reports,          \* the reports printed for each method
    exception,        \* the exception that left the try of line 580, or ""
    interrupted,      \* whether KeyboardInterrupt was raised
    ticks,            \* the ticks completed (sleeps of line 604)
    clock,            \* datetime.now()
    probes,           \* availability checks made of each backend
    sample_calls,     \* calls of the sample function of each method
    loop_samples,     \* of which from the loop of line 581
    sampled,          \* the last sample taken: its method and its records
    outcome           \* "" while the program runs, "return" when main returns,
                      \* else the exception that leaves main

energyVars == <<e_pc, e_left, initial, final, energy_wh, total_energy_wh>>
deviceVars == <<d_pc, d_src, d_env, metrics>>
sampleVars == <<s_pc, s_src, s_available, s_env, s_result>>
reportVars == <<r_pc, r_exists, r_file, r_acc, r_report, r_exc>>
monitorVars == <<pc, ENABLE_AMDSMI, ENABLE_ROCM_SMI, amdsmi_available, rocm_smi_available,
                 methods, idx, initial_metrics, files, final_metrics, reports,
                 exception, interrupted, ticks, clock, probes, sample_calls,
                 loop_samples, sampled, outcome>>
vars == <<energyVars, deviceVars, sampleVars, reportVars, monitorVars>>

(***************************************************************************)
(* _calculate_energy_consumption (lines 378-404).                          *)
(***************************************************************************)
\* The records a bookend can hold, as far as this function reads them: the
\* sources set energy_accumulator and counter_resolution independently (the
\* fallback of lines 209-222 can set either without the other).
EnergyRecords ==
    { [GPUMetrics(g, 0) EXCEPT !.energy_accumulator = t, !.counter_resolution = r] :
        g \in GpuIds,
        t \in {None} \cup {Some(c) : c \in 0 .. MaxCounter},
        r \in {None} \cup {Some(x) : x \in Resolutions} }

\* final_lookup = {m.gpu_id: m ...}; final_lookup.get(gpu_id) (lines 384, 387):
\* a final record filed under that gpu_id, or None.
lookup_results(gpu_id) ==
    {NoFinal} \cup {m \in EnergyRecords : m.gpu_id = gpu_id}

\* The condition of lines 389-393.
integrable(i, f) ==
    /\ f # NoFinal
    /\ ~IsNone(i.energy_accumulator)
    /\ ~IsNone(f.energy_accumulator)
    /\ ~IsNone(i.counter_resolution)
    /\ Val(f.energy_accumulator) >= Val(i.energy_accumulator)

\* device_energy_wh with the resolution read from the final record.
device_energy_wh_final_resolution(i, f) ==
    LET delta_ticks == Val(f.energy_accumulator) - Val(i.energy_accumulator)
        res         == IF IsNone(f.counter_resolution) THEN 0 ELSE Val(f.counter_resolution)
        delta_uj    == RatNorm([num  |-> delta_ticks * res,
                                mant |-> 1, exp |-> RESOLUTION_EXP])
    IN  RatDiv(delta_uj, UJ_PER_WH_MANT, UJ_PER_WH_EXP)

\* Lines 396-399: delta_ticks, delta_uj, energy_wh.
device_energy_wh(i, f) ==
    LET delta_ticks == Val(f.energy_accumulator) - Val(i.energy_accumulator)
        delta_uj    == RatNorm([num  |-> delta_ticks * Val(i.counter_resolution),
                                mant |-> 1, exp |-> RESOLUTION_EXP])
    IN  RatDiv(delta_uj, UJ_PER_WH_MANT, UJ_PER_WH_EXP)

\* accumulate with "=" written for "+=".
accumulate_assign(total, wh) == RatNorm(wh)

\* Line 400: total_energy_wh += energy_wh.
accumulate(total, wh) == RatAdd(total, wh)

\* One iteration of the loop of line 386 on the next initial record.
EnergyIterate ==
    /\ e_pc = "loop"
    /\ e_left > 0
    /\ \E i \in EnergyRecords :
         \E f \in lookup_results(i.gpu_id) :
            /\ initial' = i
            /\ final' = f
            /\ IF integrable(i, f)
               THEN /\ energy_wh' = Some(device_energy_wh(i, f))
                    /\ total_energy_wh' = accumulate(total_energy_wh, device_energy_wh(i, f))
               ELSE /\ energy_wh' = None
                    /\ total_energy_wh' = total_energy_wh
    /\ e_left' = e_left - 1
    /\ e_pc' = "loop"
    /\ UNCHANGED <<deviceVars, sampleVars, reportVars, monitorVars>>

\* Line 404: return total_energy_wh.
EnergyReturn ==
    /\ e_pc = "loop"
    /\ e_left = 0
    /\ e_pc' = "return"
    /\ UNCHANGED <<e_left, initial, final, energy_wh, total_energy_wh>>
    /\ UNCHANGED <<deviceVars, sampleVars, reportVars, monitorVars>>

EnergyIdle ==
    /\ e_pc = "idle" /\ e_left = 0 /\ initial = Unbound /\ final = Unbound
    /\ energy_wh = None /\ total_energy_wh = RatZero

(***************************************************************************)
(* Values a backend hands over, and Python's conversions of them.          *)
(* A raw value is <<tag, n>>: a key that is absent, a null/None, the       *)
(* string "N/A", another non-numeric string, the int n, the float n.0, the *)
(* string "n", the string "n.5", the float inf, or a call that raises.     *)
(***************************************************************************)
Absent == <<"absent", 0>>
Null == <<"null", 0>>
NA == <<"N/A", 0>>
Junk == <<"junk", 0>>
Inf == <<"inf", 0>>
Raise == <<"raise", 0>>
IntV(n) == <<"int", n>>
FloatV(n) == <<"float", n>>
StrV(n) == <<"str", n>>
StrFV(n) == <<"strf", n>>
Readings == 0 .. MaxReading

\* dict.get(key): None for an absent key.
Get(d, k) == IF d[k] = Absent THEN Null ELSE d[k]
\* key in dict and dict[key] is not None.
NotNone(v) == v # Absent /\ v # Null
\* Python truthiness of a value returned by dict.get.
truthy(v) ==
    CASE v[1] \in {"absent", "null"} -> FALSE
      [] v[1] \in {"int", "float"}   -> v[2] # 0
      [] OTHER                       -> TRUE
\* a or b
py_or(a, b) == IF truthy(a) THEN a ELSE b
\* isinstance(v, (str, int, float)) and isinstance(v, (str, float)).
is_str_int_float(v) == v[1] \in {"int", "float", "inf", "str", "strf", "N/A", "junk"}
is_str_float(v) == v[1] \in {"float", "inf", "str", "strf", "N/A", "junk"}

\* float(v): [exc |-> the exception raised or "", v |-> the value].  The
\* strings "n.5" and the float inf occur only where int() follows.
py_float(v) ==
    CASE v[1] \in {"int", "float", "str"} -> [exc |-> "", v |-> v[2]]
      [] v[1] \in {"absent", "null"}      -> [exc |-> "TypeError", v |-> 0]
      [] OTHER                            -> [exc |-> "ValueError", v |-> 0]
\* int(v).
py_int(v) ==
    CASE v[1] \in {"int", "float", "str"} -> [exc |-> "", v |-> v[2]]
      [] v[1] \in {"absent", "null"}      -> [exc |-> "TypeError", v |-> 0]
      [] v[1] = "inf"                     -> [exc |-> "OverflowError", v |-> 0]
      [] OTHER                            -> [exc |-> "ValueError", v |-> 0]
\* int(float(v)), lines 329-330: "n.5" is truncated to n.
py_int_float(v) ==
    CASE v[1] \in {"int", "float", "str", "strf"} -> [exc |-> "", v |-> v[2]]
      [] v[1] \in {"absent", "null"}              -> [exc |-> "TypeError", v |-> 0]
      [] v[1] = "inf"                             -> [exc |-> "OverflowError", v |-> 0]
      [] OTHER                                    -> [exc |-> "ValueError", v |-> 0]

\* _safe_float (lines 351-358).
safe_float(v) ==
    IF v = Null \/ v = Absent \/ v = NA THEN None
    ELSE IF py_float(v).exc = "" THEN Some(py_float(v).v)
    ELSE None

(***************************************************************************)
(* The body of the loop of _get_amdsmi_metrics over one handle (lines      *)
(* 109-235).  env maps every key of every payload the library returns for  *)
(* the handle, and every call that can raise, to a raw value.              *)
(***************************************************************************)
GmRaise == "amdsmi_get_gpu_metrics_info()"
GmKeys == {"temperature_edge", "temperature_hotspot", "average_socket_power",
           "current_socket_power", "average_gfx_activity",
           "average_gfxclk_frequency", "current_gfxclk",
           "average_uclk_frequency", "current_uclk", "energy_accumulator"}
\* amdsmi_get_temp_metric(handle, type, CURRENT), one slot per type.
TempCalls == <<"temp_metric(EDGE)", "temp_metric(HOTSPOT)", "temp_metric(JUNCTION)">>
TempSlots == {TempCalls[n] : n \in 1 .. 3}
NarrowKeys == {"power_info.current_socket_power", "power_info.average_socket_power",
               "gpu_activity.gfx_activity",
               "energy_count.energy_accumulator", "energy_count.power",
               "energy_count.counter", "energy_count.counter_resolution"}
VramKeys == {"vram_usage.vram_used", "vram_usage.vram_total"}
\* Narrow calls (and the import of line 166) that can raise.
NarrowRaises == {"import AmdSmiTemperatureType", "amdsmi_get_power_info()",
                 "amdsmi_get_gpu_activity()", "amdsmi_get_energy_count()",
                 "amdsmi_get_gpu_vram_usage()"}
AmdsmiSlots == {GmRaise} \cup GmKeys \cup TempSlots \cup NarrowKeys \cup VramKeys
                \cup NarrowRaises

\* The outcome of an "if k1 ... elif k2 ..." pair of lines 117-150 under
\* conversion conv: the field, or the exception float() raised.
first_not_none(d, k1, k2) ==
    IF NotNone(d[k1]) THEN d[k1] ELSE IF NotNone(d[k2]) THEN d[k2] ELSE Null

\* Lines 113-157 after amdsmi_get_gpu_metrics_info returned gm: the fields
\* assigned before the first exception, and whether one was raised.
amdsmi_comprehensive(m, gm) ==
    LET temp  == first_not_none(gm, "temperature_edge", "temperature_hotspot")
        power == first_not_none(gm, "average_socket_power", "current_socket_power")
        util  == first_not_none(gm, "average_gfx_activity", "average_gfx_activity")
        sclk  == first_not_none(gm, "average_gfxclk_frequency", "current_gfxclk")
        mclk  == first_not_none(gm, "average_uclk_frequency", "current_uclk")
        acc   == first_not_none(gm, "energy_accumulator", "energy_accumulator")
        \* the statements in order; a statement whose value is None assigns nothing
        ok1 == temp = Null \/ py_float(temp).exc = ""
        ok2 == ok1 /\ (power = Null \/ py_float(power).exc = "")
        ok3 == ok2 /\ (util = Null \/ py_float(util).exc = "")
        ok4 == ok3 /\ (sclk = Null \/ py_float(sclk).exc = "")
        ok5 == ok4 /\ (mclk = Null \/ py_float(mclk).exc = "")
        ok6 == ok5 /\ (acc = Null \/ py_int(acc).exc = "")
        F(raw, ok, old) == IF ok /\ raw # Null THEN Some(py_float(raw).v) ELSE old
    IN  [exc |-> ~ok6,
         m   |-> [m EXCEPT
                   !.temperature_celsius = F(temp, ok1, @),
                   !.power_watts         = F(power, ok2, @),
                   !.utilization_percent = F(util, ok3, @),
                   !.sclk_mhz            = F(sclk, ok4, @),
                   !.mclk_mhz            = F(mclk, ok5, @),
                   !.energy_accumulator  =
                        IF ok6 /\ acc # Null THEN Some(py_int(acc).v) ELSE @,
                   !.counter_resolution  =
                        IF ok6 /\ acc # Null THEN Some(RESOLUTION_GPU_METRICS) ELSE @]]

\* Lines 176-181 for one temperature type: the reading accepted, if any.
temp_accepted(v) ==
    /\ v # Raise
    /\ v # Null
    /\ py_float(v).exc = ""
    /\ py_float(v).v > 0
\* Lines 164-185: the first temperature type with an accepted reading.
fallback_temperature(m, env) ==
    IF env["import AmdSmiTemperatureType"] = Raise THEN m
    ELSE LET hits == {n \in 1 .. 3 : temp_accepted(env[TempCalls[n]])}
         IN  IF hits = {} THEN m
             ELSE LET n == CHOOSE x \in hits : \A y \in hits : x <= y
                  IN  [m EXCEPT !.temperature_celsius =
                         Some(py_float(env[TempCalls[n]]).v \div MILLIDEGREES)]

\* Lines 188-196.
fallback_power(m, env) ==
    IF env["amdsmi_get_power_info()"] = Raise THEN m
    ELSE LET power_val == py_or(Get(env, "power_info.current_socket_power"),
                                Get(env, "power_info.average_socket_power"))
         IN  IF power_val # Null /\ py_float(power_val).exc = ""
             THEN [m EXCEPT !.power_watts = Some(py_float(power_val).v)]
             ELSE m

\* Lines 199-206.
fallback_activity(m, env) ==
    IF env["amdsmi_get_gpu_activity()"] = Raise THEN m
    ELSE LET util_val == Get(env, "gpu_activity.gfx_activity")
         IN  IF util_val # Null /\ py_float(util_val).exc = ""
             THEN [m EXCEPT !.utilization_percent = Some(py_float(util_val).v)]
             ELSE m

\* Lines 209-222: the counter, then the resolution; an exception leaves
\* what was assigned before it.
fallback_energy(m, env) ==
    IF env["amdsmi_get_energy_count()"] = Raise THEN m
    ELSE LET energy_val == py_or(py_or(Get(env, "energy_count.energy_accumulator"),
                                       Get(env, "energy_count.power")),
                                 Get(env, "energy_count.counter"))
             \* energy.get("counter_resolution", 15.259)
             resolution == env["energy_count.counter_resolution"]
             m1 == IF energy_val # Null
                   THEN [m EXCEPT !.energy_accumulator = Some(py_int(energy_val).v)]
                   ELSE m
         IN  IF energy_val # Null /\ py_int(energy_val).exc # "" THEN m
             ELSE IF resolution = Absent
             THEN [m1 EXCEPT !.counter_resolution = Some(RESOLUTION_DEFAULT)]
             ELSE IF py_float(resolution).exc # "" THEN m1
             ELSE [m1 EXCEPT !.counter_resolution =
                      Some(py_float(resolution).v * Pow10(RESOLUTION_EXP))]

\* Lines 225-233.
amdsmi_vram(m, env) ==
    IF env["amdsmi_get_gpu_vram_usage()"] = Raise THEN m
    ELSE LET vram_used  == Get(env, "vram_usage.vram_used")
             vram_total == py_or(Get(env, "vram_usage.vram_total"), IntV(VRAM_TOTAL_DEFAULT))
         IN  IF vram_used = Null THEN m
             \* "N/A" > 0 raises TypeError; float("N/A") raises ValueError
             ELSE IF py_float(vram_total).exc # "" \/ vram_total[1] = "str" THEN m
             ELSE IF ~(py_float(vram_total).v > 0) THEN m
             ELSE IF py_float(vram_used).exc # "" THEN m
             ELSE [m EXCEPT !.vram_usage_percent =
                      Some(RatNorm([num  |-> py_float(vram_used).v * PERCENT,
                                    mant |-> py_float(vram_total).v,
                                    exp  |-> 0]))]

\* Lines 109-235: the record appended for handle number i.  The body raises
\* nothing: every backend call in it sits in a try/except Exception.
amdsmi_device(i, timestamp, env) ==
    LET m0   == GPUMetrics(i, timestamp)
        comp == IF env[GmRaise] = Raise THEN [exc |-> TRUE, m |-> m0]
                ELSE amdsmi_comprehensive(m0, env)
        m1   == IF comp.exc
                THEN fallback_energy(
                       fallback_activity(
                         fallback_power(
                           fallback_temperature(comp.m, env), env), env), env)
                ELSE comp.m
    IN  amdsmi_vram(m1, env)

(***************************************************************************)
(* The body of the loop of _get_rocm_smi_metrics over one card (lines      *)
(* 271-343).  gpu_data maps the keys the code reads to raw values.         *)
(***************************************************************************)
RocmPower == "Current Socket Graphics Package Power (W)"
RocmTemp == "Temperature (Sensor junction) (C)"
RocmUtil == "GPU use (%)"
RocmVram == "GPU Memory Allocated (VRAM%)"
RocmSclk == "current_gfxclk (MHz)"
RocmMclk == "current_uclk (MHz)"
RocmSimpleKeys == {RocmPower, RocmTemp, RocmUtil, RocmVram, RocmSclk, RocmMclk}
\* The keys of methods 1 to 4, in the order tried.
RocmEnergyKeys == <<"energy_accumulator", "Energy counter",
                    "energy_accumulator (15.259uJ (2^-16))",
                    "Accumulated Energy (uJ)">>
RocmEnergySlots == {RocmEnergyKeys[n] : n \in 1 .. 4}
RocmSlots == RocmSimpleKeys \cup RocmEnergySlots

\* Whether method n (lines 284-335) finds the counter, and what it raises.
rocm_method(n, gpu_data) ==
    LET v    == Get(gpu_data, RocmEnergyKeys[n])
        inst == IF n = 4 THEN is_str_float(v) ELSE is_str_int_float(v)
        conv == IF n = 4 THEN py_int_float(v) ELSE py_int(v)
    IN  [found |-> inst /\ conv.exc = "",
         \* only ValueError is caught (lines 293, 306, 320, 334)
         exc   |-> IF inst /\ conv.exc \notin {"", "ValueError"} THEN conv.exc ELSE "",
         ticks |-> conv.v,
         res   |-> IF n = 4 THEN RESOLUTION_UJ ELSE RESOLUTION_DEFAULT]

\* Lines 282-335: the first method that finds the counter; a method that
\* raises ends the body.
rocm_energy(m, gpu_data) ==
    LET stop == {n \in 1 .. 4 : rocm_method(n, gpu_data).found
                                \/ rocm_method(n, gpu_data).exc # ""}
    IN  IF stop = {} THEN [exc |-> "", m |-> m]
        ELSE LET n == CHOOSE x \in stop : \A y \in stop : x <= y
                 r == rocm_method(n, gpu_data)
             IN  IF r.exc # "" THEN [exc |-> r.exc, m |-> m]
                 ELSE [exc |-> "",
                       m   |-> [m EXCEPT !.energy_accumulator = Some(r.ticks),
                                         !.counter_resolution = Some(r.res)]]

\* safe_float as the percentage of line 277: the field holds a ratio.
safe_ratio(v) == IF safe_float(v) = None THEN None ELSE Some(Rat(Val(safe_float(v))))

\* Lines 271-343: [exc |-> the exception that leaves the body or "",
\* m |-> the record appended].
rocm_card(gpu_id, timestamp, gpu_data) ==
    LET m0 == [GPUMetrics(gpu_id, timestamp) EXCEPT
                 !.power_watts         = safe_float(Get(gpu_data, RocmPower)),
                 !.temperature_celsius = safe_float(Get(gpu_data, RocmTemp)),
                 !.utilization_percent = safe_float(Get(gpu_data, RocmUtil)),
                 !.vram_usage_percent  = safe_ratio(Get(gpu_data, RocmVram)),
                 !.sclk_mhz            = safe_float(Get(gpu_data, RocmSclk)),
                 !.mclk_mhz            = safe_float(Get(gpu_data, RocmMclk))]
    IN  rocm_energy(m0, gpu_data)

(***************************************************************************)
(* The payloads a device can get: at most MaxEntries entries.              *)
(***************************************************************************)
LibVals == {Null, NA} \cup {IntV(n) : n \in Readings}
\* vram_used and vram_total: the library reports them by separate keys, so
\* one can exceed the other.
VramVals == LibVals \cup {IntV(MaxReading + 1)}
TempVals == {Raise, Null, NA} \cup {IntV(n * MILLIDEGREES) : n \in Readings}
ToolVals == {Null, NA, Junk} \cup {IntV(n) : n \in Readings} \cup {StrV(n) : n \in Readings}
ToolEnergyVals == {Null, NA, Inf} \cup {IntV(n) : n \in Readings}
                    \cup {FloatV(n) : n \in Readings} \cup {StrV(n) : n \in Readings}
                    \cup {StrFV(n) : n \in Readings}
\* The values of the slots ss, which are of one kind.
SlotVals(ss, tool) ==
    IF tool THEN (IF ss \subseteq RocmSimpleKeys THEN ToolVals ELSE ToolEnergyVals)
    ELSE IF ss \subseteq VramKeys THEN VramVals
    ELSE IF ss \subseteq GmKeys \cup NarrowKeys THEN LibVals
    ELSE IF ss \subseteq TempSlots THEN TempVals
    ELSE {Raise}

\* The slots in a fixed order: the keys of the comprehensive payload first.
AmdsmiSlotSeq ==
    <<"temperature_edge", "temperature_hotspot", "average_socket_power",
      "current_socket_power", "average_gfx_activity",
      "average_gfxclk_frequency", "current_gfxclk",
      "average_uclk_frequency", "current_uclk", "energy_accumulator",
      "temp_metric(EDGE)", "temp_metric(HOTSPOT)", "temp_metric(JUNCTION)",
      "power_info.current_socket_power", "power_info.average_socket_power",
      "gpu_activity.gfx_activity",
      "energy_count.energy_accumulator", "energy_count.power",
      "energy_count.counter", "energy_count.counter_resolution",
      "vram_usage.vram_used", "vram_usage.vram_total",
      "import AmdSmiTemperatureType", "amdsmi_get_power_info()",
      "amdsmi_get_gpu_activity()", "amdsmi_get_energy_count()",
      "amdsmi_get_gpu_vram_usage()">>
RocmSlotSeq ==
    <<"Current Socket Graphics Package Power (W)",
      "Temperature (Sensor junction) (C)", "GPU use (%)",
      "GPU Memory Allocated (VRAM%)", "current_gfxclk (MHz)",
      "current_uclk (MHz)", "energy_accumulator", "Energy counter",
      "energy_accumulator (15.259uJ (2^-16))", "Accumulated Energy (uJ)">>

\* The ways to pick n slots among from .. to, in increasing order.
Picks(n, from, to) ==
    {f \in [1 .. n -> from .. to] : \A j \in 1 .. (n - 1) : f[j] < f[j + 1]}
\* The ways to give the picked slots values of their own kind.  tool tells
\* the rocm-smi keys from the library's.
Fills(n, slotSeq, pick, tool) ==
    {v \in [1 .. n -> SlotVals(IF tool THEN RocmSimpleKeys ELSE GmKeys, tool)
                      \cup SlotVals(IF tool THEN RocmEnergySlots ELSE TempSlots, tool)
                      \cup SlotVals(IF tool THEN RocmEnergySlots ELSE NarrowRaises, tool)
                      \cup SlotVals(IF tool THEN RocmEnergySlots ELSE VramKeys, tool)] :
        \A j \in 1 .. n : v[j] \in SlotVals({slotSeq[pick[j]]}, tool)}
\* The payload with the picked slots filled and every other key absent.
Payload(slots, n, slotSeq, pick, v) ==
    [s \in slots |-> IF \E j \in 1 .. n : slotSeq[pick[j]] = s
                     THEN v[CHOOSE j \in 1 .. n : slotSeq[pick[j]] = s]
                     ELSE Absent]

\* The loop body of _get_amdsmi_metrics on one handle: the comprehensive
\* call returns a payload, or it raises and only the narrow calls answer.
AmdsmiDevice ==
    /\ d_pc = "call"
    /\ \E gm_raises \in BOOLEAN, n \in 0 .. MaxEntries :
         \E pick \in Picks(n, IF gm_raises THEN Cardinality(GmKeys) + 1 ELSE 1,
                          Len(AmdsmiSlotSeq)) :
           \E v \in Fills(n, AmdsmiSlotSeq, pick, FALSE) :
             LET env == [Payload(AmdsmiSlots, n, AmdsmiSlotSeq, pick, v) EXCEPT
                           ![GmRaise] = IF gm_raises THEN Raise ELSE Absent]
             IN  /\ d_env' = env
                 /\ metrics' = amdsmi_device(0, 0, env)
    /\ d_src' = "amdsmi"
    /\ d_pc' = "done"
    /\ UNCHANGED <<energyVars, sampleVars, reportVars, monitorVars>>

\* The loop body of _get_rocm_smi_metrics on one card.
RocmCard ==
    /\ d_pc = "call"
    /\ \E n \in 0 .. MaxEntries :
         \E pick \in Picks(n, 1, Len(RocmSlotSeq)) :
           \E v \in Fills(n, RocmSlotSeq, pick, TRUE) :
             LET gpu_data == Payload(RocmSlots, n, RocmSlotSeq, pick, v)
             IN  /\ d_env' = gpu_data
                 /\ metrics' = rocm_card(0, 0, gpu_data).m
                 /\ d_pc' = IF rocm_card(0, 0, gpu_data).exc = ""
                            THEN "done" ELSE "raised"
    /\ d_src' = "rocm_smi"
    /\ UNCHANGED <<energyVars, sampleVars, reportVars, monitorVars>>

DeviceIdle ==
    /\ d_pc = "idle" /\ d_src = "" /\ d_env = <<>> /\ metrics = Unbound

(***************************************************************************)
(* The call frames of the two sources.  The exceptions of the model are    *)
(* names of Python exception classes; all but KeyboardInterrupt derive     *)
(* from Exception.                                                         *)
(***************************************************************************)
\* "except ValueError" written for "except Exception".
except_ValueError(exc) == exc = "ValueError"

\* Whether "except Exception" (lines 76, 89, 240, 347) catches exc.
except_Exception(exc) == exc \notin {"", "KeyboardInterrupt"}

\* The records of the handles h[1..n], in order (lines 108-235).
RECURSIVE amdsmi_records(_, _, _)
amdsmi_records(h, n, timestamp) ==
    IF n = 0 THEN <<>>
    ELSE Append(amdsmi_records(h, n - 1, timestamp),
                amdsmi_device(n - 1, timestamp, h[n]))

\* Lines 99-238, the try block of _get_amdsmi_metrics.  lib answers
\*   init     "" or the exception "import amdsmi; amdsmi_init()" raises,
\*   handles  "" or the exception amdsmi_get_processor_handles() raises,
\*   devices  the payloads of the handles it returns,
\*   shutdown "" or the exception amdsmi_shut_down() raises (line 237).
\* calls lists the library sessions calls made, with what each raised.
amdsmi_try(lib, timestamp) ==
    IF lib.init # ""
    THEN [exc |-> lib.init, value |-> <<>>, calls |-> <<<<"amdsmi_init", lib.init>>>>]
    ELSE IF lib.handles # ""
    THEN [exc |-> lib.handles, value |-> <<>>, calls |-> <<<<"amdsmi_init", "">>>>]
    ELSE [exc   |-> lib.shutdown,
          value |-> amdsmi_records(lib.devices, Len(lib.devices), timestamp),
          calls |-> <<<<"amdsmi_init", "">>, <<"amdsmi_shut_down", lib.shutdown>>>>]

\* _get_amdsmi_metrics (lines 94-247): [exc |-> what the call raises or "",
\* value |-> the list returned, calls |-> the session calls made].
get_amdsmi_metrics(available, lib, timestamp) ==
    IF ~available THEN [exc |-> "", value |-> <<>>, calls |-> <<>>]
    ELSE LET t == amdsmi_try(lib, timestamp)
         IN  IF t.exc = "" THEN t
             ELSE IF except_Exception(t.exc)
             \* lines 240-247: shut down again, whatever that raises, return []
             THEN [exc   |-> "",
                   value |-> <<>>,
                   calls |-> Append(t.calls, <<"amdsmi_shut_down", lib.shutdown_again>>)]
             ELSE [t EXCEPT !.value = <<>>]

\* Lines 266-343 on the entries e[1..n] of the parsed output, in order: the
\* records so far and the exception that ended the loop, if any.  An entry
\* is [key |-> <<kind, number>>, data |-> a payload or <<>> for a value that
\* is no dict]; kind is "card" for "card<number>", "cardX" for a key that
\* starts with "card" and holds no number, "other" for any other key.
RECURSIVE rocm_records(_, _, _)
rocm_records(e, n, timestamp) ==
    IF n = 0 THEN [exc |-> "", value |-> <<>>]
    ELSE LET before == rocm_records(e, n - 1, timestamp)
             entry  == e[n]
         IN  IF before.exc # "" THEN before
             ELSE IF entry.key[1] = "other" \/ entry.data = <<>> THEN before
             \* int("X") of line 270
             ELSE IF entry.key[1] = "cardX" THEN [before EXCEPT !.exc = "ValueError"]
             ELSE LET c == rocm_card(entry.key[2], timestamp, entry.data)
                  IN  IF c.exc # "" THEN [before EXCEPT !.exc = c.exc]
                      ELSE [before EXCEPT !.value = Append(@, c.m)]

\* Lines 255-345, the try block of _get_rocm_smi_metrics.  proc answers
\*   run        "" or the exception subprocess.run raises,
\*   returncode the exit code,
\*   stdout     <<"text">> for output that is no JSON, <<"list">> for JSON
\*              that is no object, <<"dict", entries>> for an object.
rocm_try(proc, timestamp) ==
    IF proc.run # "" THEN [exc |-> proc.run, value |-> <<>>]
    ELSE IF proc.returncode # 0 THEN [exc |-> "", value |-> <<>>]
    ELSE IF proc.stdout[1] = "text" THEN [exc |-> "JSONDecodeError", value |-> <<>>]
    ELSE IF proc.stdout[1] = "list" THEN [exc |-> "AttributeError", value |-> <<>>]
    ELSE rocm_records(proc.stdout[2], Len(proc.stdout[2]), timestamp)

\* _get_rocm_smi_metrics (lines 249-349).
get_rocm_smi_metrics(available, proc, timestamp) ==
    IF ~available THEN [exc |-> "", value |-> <<>>, calls |-> <<>>]
    ELSE LET t == rocm_try(proc, timestamp)
         IN  IF t.exc = "" THEN [exc |-> "", value |-> t.value, calls |-> <<>>]
             ELSE IF except_Exception(t.exc)
             THEN [exc |-> "", value |-> <<>>, calls |-> <<>>]
             ELSE [exc |-> t.exc, value |-> <<>>, calls |-> <<>>]

(***************************************************************************)
(* What the backends can answer to one call of a source.                   *)
(***************************************************************************)
LibraryErrors == {"", "AmdSmiLibraryException"}
\* The payload of a handle with a power reading and an energy counter.
DeviceEnv(p, a) ==
    [s \in AmdsmiSlots |->
       IF s = "average_socket_power" THEN p
       ELSE IF s = "energy_accumulator" THEN a
       ELSE Absent]
SomeDeviceEnvs ==
    { DeviceEnv(p, a) :
        p \in {Absent, IntV(MaxReading)},
        a \in {Absent, NA, IntV(0), IntV(MaxCounter)} }
RECURSIVE SeqsUpTo(_, _)
SeqsUpTo(S, n) ==
    IF n = 0 THEN {<<>>}
    ELSE LET shorter == SeqsUpTo(S, n - 1)
         IN  shorter \cup {Append(q, x) : q \in {r \in shorter : Len(r) = n - 1}, x \in S}
AmdsmiAnswers ==
    { [init |-> "", handles |-> "", devices |-> d, shutdown |-> "", shutdown_again |-> ""] :
        d \in SeqsUpTo(SomeDeviceEnvs, MaxGpus) }
    \cup
    { [init |-> "", handles |-> "", devices |-> d,
       shutdown |-> "AmdSmiLibraryException", shutdown_again |-> sa] :
        d \in SeqsUpTo(SomeDeviceEnvs, MaxGpus),
        sa \in LibraryErrors }
    \cup
    { [init |-> i, handles |-> "", devices |-> <<>>, shutdown |-> "", shutdown_again |-> sa] :
        i \in {"AmdSmiLibraryException", "ImportError"},
        sa \in LibraryErrors }
    \cup
    { [init |-> "", handles |-> "AmdSmiLibraryException", devices |-> <<>>,
       shutdown |-> "", shutdown_again |-> sa] :
        sa \in LibraryErrors }
\* The payload of a card with a power reading and an energy counter.
CardData(p, a) ==
    [s \in RocmSlots |->
       IF s = RocmPower THEN p
       ELSE IF s = "energy_accumulator" THEN a
       ELSE Absent]
SomeCardData ==
    { CardData(p, a) :
        p \in {Absent, StrV(MaxReading)},
        a \in {Absent, Inf, StrV(MaxCounter)} }
RocmEntries ==
    { [key |-> k, data |-> d] :
        k \in {<<"card", g>> : g \in GpuIds} \cup {<<"cardX", 0>>, <<"other", 0>>},
        d \in SomeCardData \cup {<<>>} }
\* Entries of one JSON object: its keys differ.
DistinctKeys(e) ==
    \A a \in 1 .. Len(e), b \in 1 .. Len(e) :
        (a # b /\ e[a].key[1] = "card" /\ e[b].key[1] = "card") => e[a].key # e[b].key
RocmAnswers ==
    { [run |-> r, returncode |-> 0, stdout |-> <<"text">>] :
        r \in {"FileNotFoundError", "TimeoutExpired"} }
    \cup { [run |-> "", returncode |-> c, stdout |-> <<"text">>] : c \in {0, 1} }
    \cup { [run |-> "", returncode |-> c, stdout |-> <<"list">>] : c \in {0, 1} }
    \cup { [run |-> "", returncode |-> c, stdout |-> <<"dict", e>>] :
             c \in {0, 1},
             e \in {x \in SeqsUpTo(RocmEntries, MaxGpus) : DistinctKeys(x)} }

\* One call of _get_amdsmi_metrics.
SampleAmdsmi ==
    /\ s_pc = "call"
    /\ \E available \in BOOLEAN, lib \in AmdsmiAnswers :
         LET r == get_amdsmi_metrics(available, lib, 0)
         IN  /\ s_available' = available
             /\ s_env' = lib
             /\ s_result' = r
             /\ s_pc' = IF r.exc = "" THEN "returned" ELSE "raised"
    /\ s_src' = "amdsmi"
    /\ UNCHANGED <<energyVars, deviceVars, reportVars, monitorVars>>

\* One call of _get_rocm_smi_metrics.
SampleRocmSmi ==
    /\ s_pc = "call"
    /\ \E available \in BOOLEAN, proc \in RocmAnswers :
         LET r == get_rocm_smi_metrics(available, proc, 0)
         IN  /\ s_available' = available
             /\ s_env' = proc
             /\ s_result' = r
             /\ s_pc' = IF r.exc = "" THEN "returned" ELSE "raised"
    /\ s_src' = "rocm_smi"
    /\ UNCHANGED <<energyVars, deviceVars, reportVars, monitorVars>>

SampleIdle ==
    /\ s_pc = "idle" /\ s_src = "" /\ s_available = FALSE
    /\ s_env = <<>> /\ s_result = <<>>

(***************************************************************************)
(* _calculate_energy_consumption as one call (lines 378-404), on the       *)
(* lists initials (initial_metrics) and finals (final_metrics).            *)
(***************************************************************************)
\* final_lookup.get(gpu_id) over {m.gpu_id: m for m in finals}: the
\* last record of finals[1..n] with that gpu_id.
RECURSIVE final_lookup_get(_, _, _)
final_lookup_get(finals, n, gpu_id) ==
    IF n = 0 THEN NoFinal
    ELSE IF finals[n].gpu_id = gpu_id THEN finals[n]
    ELSE final_lookup_get(finals, n - 1, gpu_id)

\* The total after the loop of line 386 ran over initials[1..n].
RECURSIVE energy_loop(_, _, _)
energy_loop(initials, n, finals) ==
    IF n = 0 THEN RatZero
    ELSE LET before == energy_loop(initials, n - 1, finals)
             i == initials[n]
             f == final_lookup_get(finals, Len(finals), i.gpu_id)
         IN  IF integrable(i, f) THEN accumulate(before, device_energy_wh(i, f))
             ELSE before

calculate_energy_consumption(initials, finals) ==
    energy_loop(initials, Len(initials), finals)

(***************************************************************************)
(* The record stream file and _generate_report (lines 406-536).  A line of *)
(* the file is <<"json", dict>> when it parses as JSON and <<"text", ..>>  *)
(* when it does not (a line cut short by a failed write).                  *)
(***************************************************************************)
\* Lines 364-375: the dict _save_metrics writes for a record.
metrics_dict(m) ==
    [timestamp           |-> m.timestamp,
     gpu_id              |-> m.gpu_id,
     power_watts         |-> m.power_watts,
     temperature_celsius |-> m.temperature_celsius,
     utilization_percent |-> m.utilization_percent,
     vram_usage_percent  |-> m.vram_usage_percent,
     sclk_mhz            |-> m.sclk_mhz,
     mclk_mhz            |-> m.mclk_mhz,
     energy_accumulator  |-> m.energy_accumulator,
     counter_resolution  |-> m.counter_resolution]
\* json.dumps(metrics_dict) + '\n' (line 376) and json.loads(line) (line 420).
json_dumps(d) == <<"json", d>>
PartialLine == <<"text", <<>>>>
json_loads(line) ==
    IF line[1] = "json" THEN [exc |-> "", data |-> line[2]]
    ELSE [exc |-> "JSONDecodeError", data |-> <<>>]

\* A file that does not exist, and what the locals of lines 411-418 start as.
NoFile == [exists |-> FALSE, lines |-> <<>>]
ReportAcc0 ==
    [gpu_ids        |-> {},
     timestamp_data |-> <<>>,
     all_power      |-> <<>>,
     all_temp       |-> <<>>,
     all_util       |-> <<>>]

\* Lines 424-426: timestamp_data keeps its keys in order of insertion.
timestamp_data_append(td, timestamp, data) ==
    IF \E k \in 1 .. Len(td) : td[k].timestamp = timestamp
    THEN [k \in 1 .. Len(td) |->
            IF td[k].timestamp = timestamp
            THEN [td[k] EXCEPT !.data = Append(@, data)]
            ELSE td[k]]
    ELSE Append(td, [timestamp |-> timestamp, data |-> <<data>>])

\* Lines 428-442 for one field: the value is a float or null in every line
\* the program writes, so float() raises nothing.
append_known(all, v) == IF IsNone(v) THEN all ELSE Append(all, Val(v))

\* Lines 420-442: one iteration of the loop over the lines of the file.
read_line(acc, line) ==
    LET l == json_loads(line)
    IN  IF l.exc # "" THEN [exc |-> l.exc, acc |-> acc]
        ELSE [exc |-> "",
              acc |-> [gpu_ids        |-> acc.gpu_ids \cup {l.data.gpu_id},
                       timestamp_data |-> timestamp_data_append(acc.timestamp_data,
                                                                l.data.timestamp, l.data),
                       all_power      |-> append_known(acc.all_power, l.data.power_watts),
                       all_temp       |-> append_known(acc.all_temp,
                                                       l.data.temperature_celsius),
                       all_util       |-> append_known(acc.all_util,
                                                       l.data.utilization_percent)]]

\* Lines 419-442 over lines[1..n].
RECURSIVE read_lines(_, _)
read_lines(lines, n) ==
    IF n = 0 THEN [exc |-> "", acc |-> ReportAcc0]
    ELSE LET before == read_lines(lines, n - 1)
         IN  IF before.exc # "" THEN before ELSE read_line(before.acc, lines[n])

\* sum, max(.., default=0), min(.., default=0) and the averages of lines
\* 467-473 and 508-513.
RECURSIVE sum(_)
sum(s) == IF s = <<>> THEN 0 ELSE s[1] + sum(Tail(s))
max_default(s) ==
    IF s = <<>> THEN 0
    ELSE CHOOSE x \in {s[k] : k \in 1 .. Len(s)} : \A k \in 1 .. Len(s) : s[k] <= x
min_default(s) ==
    IF s = <<>> THEN 0
    ELSE CHOOSE x \in {s[k] : k \in 1 .. Len(s)} : \A k \in 1 .. Len(s) : x <= s[k]
average(s) ==
    IF s = <<>> THEN RatZero
    ELSE RatNorm([num |-> sum(s), mant |-> Len(s), exp |-> 0])

\* Lines 454-461: the known power values of one timestamp group.
RECURSIVE numeric_powers(_)
numeric_powers(gpu_data_list) ==
    IF gpu_data_list = <<>> THEN <<>>
    ELSE LET power_val == gpu_data_list[1].power_watts
             rest      == numeric_powers(Tail(gpu_data_list))
         IN  IF IsNone(power_val) THEN rest ELSE <<Val(power_val)>> \o rest

\* "if True" written for "if numeric_powers".
has_power_data_always(powers) == TRUE

\* Line 463: if numeric_powers.
has_power_data(powers) == powers # <<>>

\* Lines 451-464 over timestamp_data[1..n].
RECURSIVE total_power_per_timestamp(_, _)
total_power_per_timestamp(td, n) ==
    IF n = 0 THEN <<>>
    ELSE LET before == total_power_per_timestamp(td, n - 1)
             powers == numeric_powers(td[n].data)
         IN  IF has_power_data(powers) THEN Append(before, sum(powers)) ELSE before

\* Lines 444-527: the figures of the report, from the locals the loop over
\* the file left.  The figures that depend on the wall clock (duration,
\* expected energy, accuracy) are left out.
report_figures(acc, initials, finals, method) ==
    LET series == total_power_per_timestamp(acc.timestamp_data, Len(acc.timestamp_data))
    IN  [method                    |-> method,
         gpu_count                 |-> Cardinality(acc.gpu_ids),
         total_power_per_timestamp |-> series,
         max_total_system_power    |-> max_default(series),
         min_total_system_power    |-> min_default(series),
         avg_total_system_power    |-> average(series),
         max_individual_gpu_power  |-> max_default(acc.all_power),
         min_individual_gpu_power  |-> min_default(acc.all_power),
         avg_individual_gpu_power  |-> average(acc.all_power),
         max_temp                  |-> max_default(acc.all_temp),
         avg_temp                  |-> average(acc.all_temp),
         max_util                  |-> max_default(acc.all_util),
         avg_util                  |-> average(acc.all_util),
         total_energy_wh           |-> calculate_energy_consumption(initials,
                                                                    finals),
         energy_gpus               |-> Len(initials)]

\* Lines 529-535: the report is printed, then written to its file; saved
\* tells whether the write went through.
report_emitted(figures, write_error) ==
    [exc |-> write_error, report |-> Some([figures |-> figures, saved |-> write_error = ""])]

\* _generate_report as one call: [exc |-> what it raises or "", report |->
\* the report printed, or None].  open_error is what open(filename, 'r')
\* raises on a file that exists, write_error what writing the report raises.
generate_report(file, initials, finals, method, open_error, write_error) ==
    \* lines 446-448: FileNotFoundError, return
    IF ~file.exists THEN [exc |-> "", report |-> None]
    ELSE IF open_error # "" THEN [exc |-> open_error, report |-> None]
    ELSE LET rd == read_lines(file.lines, Len(file.lines))
         IN  IF rd.exc # "" THEN [exc |-> rd.exc, report |-> None]
             ELSE report_emitted(report_figures(rd.acc, initials,
                                                finals, method), write_error)

\* The lines a record stream can hold.
ReportRecords ==
    { [GPUMetrics(g, t) EXCEPT !.power_watts = p, !.temperature_celsius = p] :
        g \in {0, MaxGpus - 1}, t \in {0, 1},
        p \in {None, Some(0), Some(MaxReading)} }
FileLines == {json_dumps(metrics_dict(m)) : m \in ReportRecords} \cup {PartialLine}
\* The bookends of the source the stream belongs to.
Bookend(counter) ==
    <<[GPUMetrics(0, 0) EXCEPT !.energy_accumulator = Some(counter),
                               !.counter_resolution = Some(RESOLUTION_DEFAULT)]>>
FileErrors == {"", "PermissionError"}

\* Lines 416-417: open(filename, 'r').
ReportOpen ==
    /\ r_pc = "call"
    /\ \E exists \in BOOLEAN, open_error \in FileErrors :
         /\ r_exists' = exists
         /\ IF ~exists THEN r_pc' = "returned" /\ r_exc' = ""
            ELSE IF open_error # "" THEN r_pc' = "raised" /\ r_exc' = open_error
            ELSE r_pc' = "read" /\ r_exc' = ""
    /\ UNCHANGED <<r_file, r_acc, r_report>>
    /\ UNCHANGED <<energyVars, deviceVars, sampleVars, monitorVars>>

\* Lines 419-442: the loop reads the next line of the file.
ReportReadLine ==
    /\ r_pc = "read"
    /\ Len(r_file) < MaxLines
    /\ \E line \in FileLines :
         LET step == read_line(r_acc, line)
         IN  /\ r_file' = Append(r_file, line)
             /\ r_acc' = step.acc
             /\ r_exc' = step.exc
             /\ r_pc' = IF step.exc = "" THEN "read" ELSE "raised"
    /\ UNCHANGED <<r_exists, r_report>>
    /\ UNCHANGED <<energyVars, deviceVars, sampleVars, monitorVars>>

\* Lines 444-536: the file is at its end; the report is built and written.
ReportFinish ==
    /\ r_pc = "read"
    /\ \E t0 \in {0, MaxCounter}, write_error \in FileErrors :
         LET r == report_emitted(report_figures(r_acc, Bookend(t0), Bookend(MaxCounter),
                                                "rocm_smi"), write_error)
         IN  /\ r_report' = r.report
             /\ r_exc' = r.exc
             /\ r_pc' = IF r.exc = "" THEN "returned" ELSE "raised"
    /\ UNCHANGED <<r_exists, r_file, r_acc>>
    /\ UNCHANGED <<energyVars, deviceVars, sampleVars, monitorVars>>

ReportIdle ==
    /\ r_pc = "idle" /\ r_exists = FALSE /\ r_file = <<>> /\ r_acc = ReportAcc0
    /\ r_report = None /\ r_exc = ""

(***************************************************************************)
(* The session: main (line 672-675), __init__ (lines 48-59),               *)
(* _check_monitoring_tools (lines 61-92), _save_metrics (lines 360-376)    *)
(* and monitor (lines 538-620).                                            *)
(***************************************************************************)
MethodNames == {"amdsmi", "rocm_smi"}

\* Lines 64-79: self.amdsmi_available after the check.  The flag is set
\* before amdsmi_shut_down is called, so a failing shutdown leaves it set.
check_amdsmi(enabled, lib) ==
    enabled /\ lib.init = "" /\ lib.handles = "" /\ Len(lib.devices) > 0

\* Lines 82-92: self.rocm_smi_available after the check.
check_rocm_smi(enabled, proc) ==
    enabled /\ proc.run = "" /\ proc.returncode = 0

\* The method list with availability left out of lines 550 and 552.
active_methods_enabled(use_amdsmi, use_rocm_smi, a_available, r_available) ==
    (IF use_amdsmi THEN <<"amdsmi">> ELSE <<>>)
    \o (IF use_rocm_smi THEN <<"rocm_smi">> ELSE <<>>)

\* The method list with the tool put before the library.
active_methods_reversed(use_amdsmi, use_rocm_smi, a_available, r_available) ==
    (IF use_rocm_smi /\ r_available THEN <<"rocm_smi">> ELSE <<>>)
    \o (IF use_amdsmi /\ a_available THEN <<"amdsmi">> ELSE <<>>)

\* Lines 549-553.
active_methods(use_amdsmi, use_rocm_smi, a_available, r_available) ==
    (IF use_amdsmi /\ a_available THEN <<"amdsmi">> ELSE <<>>)
    \o (IF use_rocm_smi /\ r_available THEN <<"rocm_smi">> ELSE <<>>)

\* Lines 570-573, 583-586, 614-617: the sample function of a method.
get_metrics(method, a_available, r_available, answer, timestamp) ==
    IF method = "amdsmi" THEN get_amdsmi_metrics(a_available, answer, timestamp)
    ELSE get_rocm_smi_metrics(r_available, answer, timestamp)

\* Lines 363-376: the lines written for metrics_list[1..n].
RECURSIVE dumped_lines(_, _)
dumped_lines(metrics_list, n) ==
    IF n = 0 THEN <<>>
    ELSE Append(dumped_lines(metrics_list, n - 1), json_dumps(metrics_dict(metrics_list[n])))

\* _save_metrics (lines 360-376).  save_error is "" when nothing fails,
\* "open" when open(filename, 'a') raises, "write" when a write raises and
\* leaves a line cut short.
save_metrics(file, metrics_list, save_error) ==
    CASE save_error = "" ->
           [exc  |-> "",
            file |-> [exists |-> TRUE,
                      lines  |-> file.lines \o dumped_lines(metrics_list, Len(metrics_list))]]
      [] save_error = "open" -> [exc |-> "PermissionError", file |-> file]
      [] OTHER ->
           [exc  |-> "OSError",
            file |-> [exists |-> TRUE, lines |-> Append(file.lines, PartialLine)]]
SaveErrors == {"", "open", "write"}

\* What the backends answer during a session: a failing call, or one device
\* with a power reading and an energy counter that advances with the clock.
LibAnswer(devices, handles) ==
    [init |-> "", handles |-> handles, devices |-> devices,
     shutdown |-> "", shutdown_again |-> ""]
MonitorLibAnswers(counter) ==
    { LibAnswer(<<>>, "AmdSmiLibraryException"),
      LibAnswer(<<DeviceEnv(IntV(MaxReading), IntV(counter))>>, "") }
ProcAnswer(entries) == [run |-> "", returncode |-> 0, stdout |-> <<"dict", entries>>]
MonitorProcAnswers(counter) ==
    { [run |-> "TimeoutExpired", returncode |-> 0, stdout |-> <<"text">>],
      ProcAnswer(<<[key |-> <<"card", 0>>,
                    data |-> CardData(StrV(MaxReading), StrV(counter))]>>) }
Answers(method, counter) ==
    IF method = "amdsmi" THEN MonitorLibAnswers(counter) ELSE MonitorProcAnswers(counter)
\* What they answer to the availability check.
CheckLibAnswers ==
    { [init |-> "ImportError", handles |-> "", devices |-> <<>>,
       shutdown |-> "", shutdown_again |-> ""],
      LibAnswer(<<>>, "AmdSmiLibraryException"),
      LibAnswer(<<>>, ""),
      LibAnswer(<<DeviceEnv(Absent, Absent)>>, ""),
      [LibAnswer(<<DeviceEnv(Absent, Absent)>>, "") EXCEPT
         !.shutdown = "AmdSmiLibraryException"] }
CheckProcAnswers ==
    { [run |-> "FileNotFoundError", returncode |-> 0, stdout |-> <<"text">>],
      [run |-> "", returncode |-> 1, stdout |-> <<"text">>],
      [run |-> "", returncode |-> 0, stdout |-> <<"text">>] }

\* Lines 64-77: the library session calls the availability check makes, with
\* what each raised.  amdsmi_shut_down (line 75) sits in the try after
\* amdsmi_get_processor_handles; the handler of line 76 calls nothing.
check_amdsmi_calls(enabled, lib) ==
    IF ~enabled THEN <<>>
    ELSE IF lib.init # "" THEN <<<<"amdsmi_init", lib.init>>>>
    ELSE IF lib.handles # "" THEN <<<<"amdsmi_init", "">>>>
    ELSE <<<<"amdsmi_init", "">>, <<"amdsmi_shut_down", lib.shutdown>>>>

\* The amdsmi half of _check_monitoring_tools, as one call.
CheckAmdsmi ==
    /\ s_pc = "call"
    /\ \E enabled \in BOOLEAN, lib \in CheckLibAnswers :
         /\ s_available' = check_amdsmi(enabled, lib)
         /\ s_env' = lib
         /\ s_result' = [exc |-> "", value |-> <<>>,
                         calls |-> check_amdsmi_calls(enabled, lib)]
    /\ s_src' = "amdsmi_check"
    /\ s_pc' = "checked"
    /\ UNCHANGED <<energyVars, deviceVars, reportVars, monitorVars>>

\* Line 672: AMDGPUMonitor(), that is __init__ and _check_monitoring_tools.
Construct ==
    /\ pc = "main"
    /\ \E makedirs_error \in FileErrors, lib \in CheckLibAnswers, proc \in CheckProcAnswers :
         IF makedirs_error # ""
         THEN /\ pc' = "exited"
              /\ outcome' = makedirs_error
              /\ UNCHANGED <<amdsmi_available, rocm_smi_available, probes>>
         ELSE /\ amdsmi_available' = check_amdsmi(ENABLE_AMDSMI, lib)
              /\ rocm_smi_available' = check_rocm_smi(ENABLE_ROCM_SMI, proc)
              /\ probes' = [m \in MethodNames |->
                              IF (m = "amdsmi" /\ ENABLE_AMDSMI)
                                 \/ (m = "rocm_smi" /\ ENABLE_ROCM_SMI)
                              THEN probes[m] + 1 ELSE probes[m]]
              /\ pc' = "monitor"
              /\ outcome' = outcome
    /\ UNCHANGED <<ENABLE_AMDSMI, ENABLE_ROCM_SMI, methods, idx, initial_metrics, files,
                   final_metrics, reports, exception, interrupted, ticks, clock,
                   sample_calls, loop_samples, sampled>>
    /\ UNCHANGED <<energyVars, deviceVars, sampleVars, reportVars>>

\* Lines 541-562 of monitor, called at line 675.
MonitorSetup ==
    /\ pc = "monitor"
    /\ LET use_amdsmi   == ENABLE_AMDSMI /\ ENABLE_AMDSMI
           use_rocm_smi == ENABLE_ROCM_SMI /\ ENABLE_ROCM_SMI
           ms == IF ~(amdsmi_available \/ rocm_smi_available) THEN <<>>
                 ELSE active_methods(use_amdsmi, use_rocm_smi,
                                     amdsmi_available, rocm_smi_available)
       IN  IF ms = <<>>
           THEN /\ pc' = "exited"
                /\ outcome' = "return"
                /\ UNCHANGED <<methods, idx>>
           ELSE /\ methods' = ms
                /\ idx' = 1
                /\ pc' = "initial"
                /\ outcome' = outcome
    /\ UNCHANGED <<ENABLE_AMDSMI, ENABLE_ROCM_SMI, amdsmi_available, rocm_smi_available,
                   initial_metrics, files, final_metrics, reports, exception,
                   interrupted, ticks, clock, probes, sample_calls, loop_samples, sampled>>
    /\ UNCHANGED <<energyVars, deviceVars, sampleVars, reportVars>>

\* Lines 564-575, one iteration: the start bookend of methods[idx].  The
\* loop is outside the try of line 580.
InitialSample ==
    /\ pc = "initial"
    /\ LET method == methods[idx]
       IN  /\ \E answer \in Answers(method, clock) :
                \E r \in {get_metrics(method, amdsmi_available, rocm_smi_available,
                                      answer, clock)} :
                    /\ sampled' = Some([method |-> method, value |-> r.value])
                    /\ IF r.exc # ""
                       THEN /\ pc' = "exited"
                            /\ outcome' = r.exc
                            /\ UNCHANGED <<initial_metrics, idx>>
                       ELSE /\ initial_metrics' =
                                 [initial_metrics EXCEPT ![method] = Some(r.value)]
                            /\ idx' = IF idx < Len(methods) THEN idx + 1 ELSE 1
                            /\ pc' = IF idx < Len(methods) THEN "initial" ELSE "loop"
                            /\ outcome' = outcome
           /\ sample_calls' = [sample_calls EXCEPT ![method] = @ + 1]
    /\ clock' = clock + 1
    /\ UNCHANGED <<ENABLE_AMDSMI, ENABLE_ROCM_SMI, amdsmi_available, rocm_smi_available,
                   methods, files, final_metrics, reports, exception, interrupted,
                   ticks, probes, loop_samples>>
    /\ UNCHANGED <<energyVars, deviceVars, sampleVars, reportVars>>

\* Lines 582-602, one iteration: the sample of methods[idx] on this tick,
\* saved when it is not empty.
LoopSample ==
    /\ pc = "loop"
    /\ LET method == methods[idx]
           next_pc == IF idx < Len(methods) THEN "loop" ELSE "sleep"
           next_idx == IF idx < Len(methods) THEN idx + 1 ELSE 1
       IN  /\ \E answer \in Answers(method, clock), save_error \in SaveErrors :
                \E r \in {get_metrics(method, amdsmi_available, rocm_smi_available,
                                      answer, clock)} :
                  \E sv \in {save_metrics(files[method], r.value, save_error)} :
                    /\ sampled' = Some([method |-> method, value |-> r.value])
                    /\ IF r.exc # ""
                       THEN /\ save_error = ""
                            /\ exception' = r.exc
                            /\ pc' = "finally"
                            /\ idx' = 1
                            /\ files' = files
                       ELSE IF r.value # <<>>
                       THEN /\ files' = [files EXCEPT ![method] = sv.file]
                            /\ exception' = sv.exc
                            /\ pc' = IF sv.exc = "" THEN next_pc ELSE "finally"
                            /\ idx' = IF sv.exc = "" THEN next_idx ELSE 1
                       ELSE /\ save_error = ""
                            /\ files' = files
                            /\ exception' = exception
                            /\ pc' = next_pc
                            /\ idx' = next_idx
           /\ sample_calls' = [sample_calls EXCEPT ![method] = @ + 1]
           /\ loop_samples' = [loop_samples EXCEPT ![method] = @ + 1]
    /\ clock' = clock + 1
    /\ UNCHANGED <<ENABLE_AMDSMI, ENABLE_ROCM_SMI, amdsmi_available, rocm_smi_available,
                   methods, initial_metrics, final_metrics, reports, interrupted,
                   ticks, probes, outcome>>
    /\ UNCHANGED <<energyVars, deviceVars, sampleVars, reportVars>>

\* Line 604: time.sleep(self.sampling_interval), the end of a tick.
Sleep ==
    /\ pc = "sleep"
    /\ ticks < MaxTicks
    /\ ticks' = ticks + 1
    /\ pc' = "loop"
    /\ UNCHANGED <<ENABLE_AMDSMI, ENABLE_ROCM_SMI, amdsmi_available, rocm_smi_available,
                   methods, idx, initial_metrics, files, final_metrics, reports,
                   exception, interrupted, clock, probes, sample_calls, loop_samples,
                   sampled, outcome>>
    /\ UNCHANGED <<energyVars, deviceVars, sampleVars, reportVars>>

\* Lines 606-607: KeyboardInterrupt raised inside the try of line 580.
Interrupt ==
    /\ pc \in {"loop", "sleep"}
    /\ ~interrupted
    /\ interrupted' = TRUE
    /\ pc' = "finally"
    /\ idx' = 1
    /\ UNCHANGED <<ENABLE_AMDSMI, ENABLE_ROCM_SMI, amdsmi_available, rocm_smi_available,
                   methods, initial_metrics, files, final_metrics, reports, exception,
                   ticks, clock, probes, sample_calls, loop_samples, sampled, outcome>>
    /\ UNCHANGED <<energyVars, deviceVars, sampleVars, reportVars>>

\* KeyboardInterrupt raised outside the try of line 580 (lines 560-578) or
\* inside its finally (lines 610-620): no handler, it leaves main.
InterruptOutsideTry ==
    /\ pc \in {"initial", "finally"}
    /\ ~interrupted
    /\ interrupted' = TRUE
    /\ pc' = "exited"
    /\ outcome' = "KeyboardInterrupt"
    /\ UNCHANGED <<ENABLE_AMDSMI, ENABLE_ROCM_SMI, amdsmi_available, rocm_smi_available,
                   methods, idx, initial_metrics, files, final_metrics, reports,
                   exception, ticks, clock, probes, sample_calls, loop_samples, sampled>>
    /\ UNCHANGED <<energyVars, deviceVars, sampleVars, reportVars>>

\* Lines 613-620, one iteration: the end bookend and the report of
\* methods[idx]; after the last one the pending exception, if any, leaves
\* monitor and main.
Finalize ==
    /\ pc = "finally"
    /\ LET method == methods[idx]
       IN  /\ \E answer \in Answers(method, clock), open_error \in FileErrors,
                 write_error \in FileErrors :
                \E r \in {get_metrics(method, amdsmi_available, rocm_smi_available,
                                      answer, clock)} :
                  \E g \in {generate_report(files[method], Val(initial_metrics[method]),
                                            r.value, method, open_error, write_error)} :
                    /\ sampled' = Some([method |-> method, value |-> r.value])
                    /\ IF r.exc # ""
                       THEN /\ pc' = "exited"
                            /\ outcome' = r.exc
                            /\ UNCHANGED <<final_metrics, reports, idx>>
                       ELSE /\ final_metrics' =
                                 [final_metrics EXCEPT ![method] = Some(r.value)]
                            /\ reports' =
                                 IF IsNone(g.report) THEN reports
                                 ELSE [reports EXCEPT ![method] = Append(@, Val(g.report))]
                            /\ IF g.exc # ""
                               THEN pc' = "exited" /\ outcome' = g.exc /\ idx' = idx
                               ELSE IF idx < Len(methods)
                               THEN pc' = "finally" /\ outcome' = outcome /\ idx' = idx + 1
                               ELSE /\ pc' = "exited"
                                    /\ outcome' = IF exception # "" THEN exception
                                                  ELSE "return"
                                    /\ idx' = idx
           /\ sample_calls' = [sample_calls EXCEPT ![method] = @ + 1]
    /\ clock' = clock + 1
    /\ UNCHANGED <<ENABLE_AMDSMI, ENABLE_ROCM_SMI, amdsmi_available, rocm_smi_available,
                   methods, initial_metrics, files, exception, interrupted, ticks,
                   probes, loop_samples>>
    /\ UNCHANGED <<energyVars, deviceVars, sampleVars, reportVars>>

\* The exit status of the process (lines 677-678): main never calls
\* sys.exit, so the status is 0 when main returns, 1 when an exception
\* leaves it, and that of a death by SIGINT for KeyboardInterrupt.
exit_code ==
    CASE outcome = "return"            -> 0
      [] outcome = "KeyboardInterrupt" -> 130
      [] OTHER                         -> 1

MonitorIdle ==
    /\ pc = "idle" /\ ENABLE_AMDSMI = FALSE /\ ENABLE_ROCM_SMI = FALSE
    /\ amdsmi_available = FALSE /\ rocm_smi_available = FALSE
    /\ methods = <<>> /\ idx = 0
    /\ initial_metrics = [m \in MethodNames |-> None]
    /\ files = [m \in MethodNames |-> NoFile]
    /\ final_metrics = [m \in MethodNames |-> None]
    /\ reports = [m \in MethodNames |-> <<>>]
    /\ exception = "" /\ interrupted = FALSE /\ ticks = 0 /\ clock = 0
    /\ probes = [m \in MethodNames |-> 0]
    /\ sample_calls = [m \in MethodNames |-> 0]
    /\ loop_samples = [m \in MethodNames |-> 0]
    /\ sampled = None /\ outcome = ""

(***************************************************************************)
(* The specifications.                                                     *)
(***************************************************************************)
InitEnergy ==
    /\ e_pc = "loop"
    /\ e_left \in 0 .. MaxGpus
    /\ initial = Unbound
    /\ final = Unbound
    /\ energy_wh = None
    /\ total_energy_wh = RatZero
    /\ DeviceIdle /\ SampleIdle /\ ReportIdle /\ MonitorIdle

NextEnergy == EnergyIterate \/ EnergyReturn

SpecEnergy == InitEnergy /\ [][NextEnergy]_vars

InitDevice ==
    /\ d_pc = "call" /\ d_src = "" /\ d_env = <<>> /\ metrics = Unbound
    /\ EnergyIdle /\ SampleIdle /\ ReportIdle /\ MonitorIdle

NextDevice == AmdsmiDevice \/ RocmCard

SpecDevice == InitDevice /\ [][NextDevice]_vars

InitSample ==
    /\ s_pc = "call" /\ s_src = "" /\ s_available = FALSE
    /\ s_env = <<>> /\ s_result = <<>>
    /\ EnergyIdle /\ DeviceIdle /\ ReportIdle /\ MonitorIdle

NextSample == SampleAmdsmi \/ SampleRocmSmi \/ CheckAmdsmi

SpecSample == InitSample /\ [][NextSample]_vars

InitReport ==
    /\ r_pc = "call" /\ r_exists = FALSE /\ r_file = <<>> /\ r_acc = ReportAcc0
    /\ r_report = None /\ r_exc = ""
    /\ EnergyIdle /\ DeviceIdle /\ SampleIdle /\ MonitorIdle

NextReport == ReportOpen \/ ReportReadLine \/ ReportFinish

SpecReport == InitReport /\ [][NextReport]_vars

Init ==
    /\ pc = "main"
    /\ ENABLE_AMDSMI \in BOOLEAN /\ ENABLE_ROCM_SMI \in BOOLEAN
    /\ amdsmi_available = FALSE /\ rocm_smi_available = FALSE
    /\ methods = <<>> /\ idx = 0
    /\ initial_metrics = [m \in MethodNames |-> None]
    /\ files = [m \in MethodNames |-> NoFile]
    /\ final_metrics = [m \in MethodNames |-> None]
    /\ reports = [m \in MethodNames |-> <<>>]
    /\ exception = "" /\ interrupted = FALSE /\ ticks = 0 /\ clock = 0
    /\ probes = [m \in MethodNames |-> 0]
    /\ sample_calls = [m \in MethodNames |-> 0]
    /\ loop_samples = [m \in MethodNames |-> 0]
    /\ sampled = None /\ outcome = ""
    /\ EnergyIdle /\ DeviceIdle /\ SampleIdle /\ ReportIdle

Next ==
    \/ Construct
    \/ MonitorSetup
    \/ InitialSample
    \/ LoopSample
    \/ Sleep
    \/ Interrupt
    \/ InterruptOutsideTry
    \/ Finalize

Spec == Init /\ [][Next]_vars

(***************************************************************************)
(* Claims about _calculate_energy_consumption, under SpecEnergy.           *)
(***************************************************************************)
Ticks(m) == Val(m.energy_accumulator)
IterationDone == initial # Unbound
\* The device's energy as the specification states it: delta ticks times
\* the initial record's resolution, in Wh.
StatedEnergyWh(i, f) ==
    RatNorm([num  |-> (Ticks(f) - Ticks(i)) * Val(i.counter_resolution),
             mant |-> UJ_PER_WH_MANT,
             exp  |-> UJ_PER_WH_EXP + RESOLUTION_EXP])
\* Counter ticks on both records and the resolution of the initial record.
CountersPresent(i, f) ==
    /\ f # NoFinal
    /\ f.gpu_id = i.gpu_id
    /\ ~IsNone(i.energy_accumulator)
    /\ ~IsNone(f.energy_accumulator)
    /\ ~IsNone(i.counter_resolution)

\* C4 (as claimed): after the iteration on a device, its energy is unknown
\* (energy_wh is None, which is not a zero energy) whenever the counter ticks
\* or the tick resolution is absent on the initial or on the final record, or
\* the final ticks are less than the initial ticks.
C4_UnknownWhenAbsentOrDecreasing ==
    (IterationDone /\ final # NoFinal) =>
        (( \/ IsNone(initial.energy_accumulator)
           \/ IsNone(initial.counter_resolution)
           \/ IsNone(final.energy_accumulator)
           \/ IsNone(final.counter_resolution)
           \/ Ticks(final) < Ticks(initial) )
         => energy_wh = None)

\* C5: every iteration adds to the total exactly the energy of its own
\* device when that device is matched by gpu_id and its counters are present
\* and non-decreasing, adds nothing otherwise, and goes on to the next
\* device; the value returned is the total so accumulated from zero.
C5_TotalIsSumOfIntegrableDevices ==
    [][ /\ (e_left' = e_left - 1) =>
            /\ e_pc' = "loop"
            /\ total_energy_wh' =
                 IF CountersPresent(initial', final') /\ Ticks(final') >= Ticks(initial')
                 THEN RatAdd(total_energy_wh, StatedEnergyWh(initial', final'))
                 ELSE total_energy_wh
        /\ (e_pc' = "return") => (e_left = 0 /\ total_energy_wh' = total_energy_wh)
      ]_vars

\* C5 witness: the loop returned a non-zero total although the device it
\* iterated last had a counter that went backwards.
C5_Witness ==
    /\ e_pc = "return"
    /\ total_energy_wh # RatZero
    /\ CountersPresent(initial, final)
    /\ Ticks(final) < Ticks(initial)

\* C6: for a device with counters present and final ticks >= initial ticks
\* the energy is (final ticks - initial ticks) * initial resolution uJ over
\* 3,600,000,000 uJ/Wh, whatever the final record's resolution is, and a
\* final record with twice the delta ticks gives twice the energy.
C6_EnergyIsDeltaTimesInitialResolution ==
    (IterationDone /\ CountersPresent(initial, final) /\ Ticks(final) >= Ticks(initial)) =>
        /\ energy_wh = Some(StatedEnergyWh(initial, final))
        /\ \A f2 \in lookup_results(initial.gpu_id) :
             ( /\ CountersPresent(initial, f2)
               /\ Ticks(f2) - Ticks(initial) = 2 * (Ticks(final) - Ticks(initial)) )
             => /\ integrable(initial, f2)
                /\ device_energy_wh(initial, f2).num = 2 * Val(energy_wh).num
                /\ Val(energy_wh).num # 0 =>
                     /\ device_energy_wh(initial, f2).mant = Val(energy_wh).mant
                     /\ device_energy_wh(initial, f2).exp = Val(energy_wh).exp

\* C6 witness: a device integrated over one tick whose final record carries
\* another resolution than its initial record, and whose counter can double.
C6_Witness ==
    /\ IterationDone
    /\ CountersPresent(initial, final)
    /\ Ticks(final) - Ticks(initial) = 1
    /\ Ticks(initial) + 2 <= MaxCounter
    /\ ~IsNone(final.counter_resolution)
    /\ final.counter_resolution # initial.counter_resolution
    /\ energy_wh = Some([num  |-> Val(initial.counter_resolution),
                         mant |-> UJ_PER_WH_MANT,
                         exp  |-> UJ_PER_WH_EXP + RESOLUTION_EXP])

(***************************************************************************)
(* Claims about the per-device loop bodies, under SpecDevice.              *)
(***************************************************************************)
\* A value that is present and numerically convertible, and its number.
Convertible(v) == v[1] \in {"int", "float", "str"}
\* The value of the first key of the list keys that is present and
\* convertible in payload d, scaled down by div; None when there is none.
FirstConvertible(d, keys, div) ==
    LET hits == {n \in 1 .. Len(keys) : Convertible(d[keys[n]])}
    IN  IF hits = {} THEN None
        ELSE Some(d[keys[CHOOSE x \in hits : \A y \in hits : x <= y]][2] \div div)

\* C7 (as claimed): every field that has an ordered list of source keys
\* holds the value of the first key of its list that is present and
\* numerically convertible, a value of 0 included; this for the
\* comprehensive library call, the narrow fallback calls and the tool.
C7_FirstConvertibleKeyWins ==
    /\ (d_pc = "done" /\ d_src = "amdsmi" /\ d_env[GmRaise] # Raise) =>
        /\ metrics.temperature_celsius =
             FirstConvertible(d_env, <<"temperature_edge", "temperature_hotspot">>, 1)
        /\ metrics.power_watts =
             FirstConvertible(d_env, <<"average_socket_power", "current_socket_power">>, 1)
        /\ metrics.sclk_mhz =
             FirstConvertible(d_env, <<"average_gfxclk_frequency", "current_gfxclk">>, 1)
        /\ metrics.mclk_mhz =
             FirstConvertible(d_env, <<"average_uclk_frequency", "current_uclk">>, 1)
    /\ (d_pc = "done" /\ d_src = "amdsmi" /\ d_env[GmRaise] = Raise) =>
        /\ (d_env["import AmdSmiTemperatureType"] # Raise) =>
             metrics.temperature_celsius = FirstConvertible(d_env, TempCalls, MILLIDEGREES)
        /\ (d_env["amdsmi_get_power_info()"] # Raise) =>
             metrics.power_watts =
               FirstConvertible(d_env, <<"power_info.current_socket_power",
                                         "power_info.average_socket_power">>, 1)
        /\ (d_env["amdsmi_get_energy_count()"] # Raise) =>
             metrics.energy_accumulator =
               FirstConvertible(d_env, <<"energy_count.energy_accumulator",
                                         "energy_count.power",
                                         "energy_count.counter">>, 1)
    /\ (d_pc = "done" /\ d_src = "rocm_smi") =>
        metrics.energy_accumulator = FirstConvertible(d_env, RocmEnergyKeys, 1)

\* The value the backend supplied under one key, None when it supplied none.
Supplied(v) == IF Convertible(v) THEN Some(v[2]) ELSE None

\* C15: in a record of the narrow library calls the utilization is the value
\* supplied or absent, the tick resolution is the value supplied and absent
\* when the library supplied none (no built-in default), and a temperature
\* reading of 0 is recorded as 0; in a record of the tool each plain field
\* is the value supplied or absent.
C15_AbsencePropagatesZeroPreserved ==
    /\ (d_pc = "done" /\ d_src = "amdsmi" /\ d_env[GmRaise] = Raise) =>
        /\ (d_env["amdsmi_get_gpu_activity()"] # Raise) =>
             metrics.utilization_percent = Supplied(d_env["gpu_activity.gfx_activity"])
        /\ (d_env["amdsmi_get_energy_count()"] # Raise) =>
             metrics.counter_resolution =
               IF Convertible(d_env["energy_count.counter_resolution"])
               THEN Some(d_env["energy_count.counter_resolution"][2] * Pow10(RESOLUTION_EXP))
               ELSE None
        /\ (/\ d_env["import AmdSmiTemperatureType"] # Raise
            /\ d_env[TempCalls[1]] = IntV(0)) =>
             metrics.temperature_celsius = Some(0)
    /\ (d_pc = "done" /\ d_src = "rocm_smi") =>
        /\ metrics.power_watts = Supplied(d_env[RocmPower])
        /\ metrics.temperature_celsius = Supplied(d_env[RocmTemp])
        /\ metrics.utilization_percent = Supplied(d_env[RocmUtil])
        /\ metrics.sclk_mhz = Supplied(d_env[RocmSclk])
        /\ metrics.mclk_mhz = Supplied(d_env[RocmMclk])

\* C18: in a record of the library source vram_usage_percent is absent or
\* lies between 0 and 100, a missing or zero vram_total included.
C18_VramPercentInRange ==
    (d_pc = "done" /\ d_src = "amdsmi" /\ ~IsNone(metrics.vram_usage_percent)) =>
        LET q == Val(metrics.vram_usage_percent)
        IN  /\ q.num >= 0
            /\ q.num <= PERCENT * q.mant * Pow10(q.exp)

(***************************************************************************)
(* Claims about one call of a source, under SpecSample.                    *)
(***************************************************************************)
\* A card entry of the tool's output the loop cannot turn into a record.
MalformedEntry(entry) ==
    /\ entry.key[1] # "other"
    /\ entry.data # <<>>
    /\ \/ entry.key[1] = "cardX"
       \/ /\ entry.key[1] = "card"
          /\ rocm_card(entry.key[2], 0, entry.data).exc # ""

\* The backend failed during the call.
InternalFailure ==
    IF s_src = "amdsmi"
    THEN s_env.init # "" \/ s_env.handles # "" \/ s_env.shutdown # ""
    ELSE \/ s_env.run # ""
         \/ s_env.returncode # 0
         \/ s_env.stdout[1] \in {"text", "list"}
         \/ /\ s_env.stdout[1] = "dict"
            /\ \E n \in 1 .. Len(s_env.stdout[2]) : MalformedEntry(s_env.stdout[2][n])

\* C1: a call of _get_amdsmi_metrics or _get_rocm_smi_metrics never raises to
\* its caller, and it returns the empty list whenever the capability is
\* missing or the backend failed (library init or call failure, launch
\* failure, timeout, non-zero exit code, unparsable or malformed output).
C1_SampleNeverRaises ==
    s_pc \in {"returned", "raised"} =>
        /\ s_pc = "returned"
        /\ s_result.exc = ""
        /\ (~s_available \/ InternalFailure) => s_result.value = <<>>

\* C1 witness: an available tool whose run exceeded its timeout; the call
\* returned the empty list.
C1_Witness ==
    /\ s_pc = "returned"
    /\ s_available
    /\ s_src = "rocm_smi"
    /\ s_env.run = "TimeoutExpired"
    /\ s_result.value = <<>>

\* C1, a further case reached: the tool ran and printed a JSON object with a
\* malformed card entry; the call returned the empty list.
C1_WitnessMalformed ==
    /\ s_pc = "returned" /\ s_available /\ s_src = "rocm_smi"
    /\ s_env.run = "" /\ s_env.returncode = 0 /\ s_env.stdout[1] = "dict"
    /\ InternalFailure
    /\ s_result.value = <<>>

\* C1, a further case reached: the library answered for its devices and
\* then failed to shut down; the call returned the empty list.
C1_WitnessLibrary ==
    /\ s_pc = "returned" /\ s_available /\ s_src = "amdsmi"
    /\ s_env.shutdown # "" /\ Len(s_env.devices) > 0
    /\ s_result.value = <<>>

\* C1, a further case reached: a call that met no failure returned a record
\* for every device.
C1_WitnessRecords ==
    /\ s_pc = "returned" /\ s_available /\ ~InternalFailure
    /\ Len(s_result.value) = MaxGpus

\* Whether a sequence of library session calls leaves a session open: an
\* amdsmi_init that succeeded with no successful amdsmi_shut_down after it.
LeftOpen(calls) ==
    \E i \in 1 .. Len(calls) :
        /\ calls[i] = <<"amdsmi_init", "">>
        /\ \A j \in (i + 1) .. Len(calls) : calls[j] # <<"amdsmi_shut_down", "">>

\* C14: when the availability check or a sample call of the library source
\* is over, and amdsmi_shut_down itself did not fail, no library session
\* opened by the call is left open.
C14_SessionClosedOnEveryPath ==
    (/\ s_pc \in {"returned", "raised", "checked"}
     /\ s_src \in {"amdsmi", "amdsmi_check"}
     /\ s_env.shutdown = "" /\ s_env.shutdown_again = "") =>
        ~LeftOpen(s_result.calls)

(***************************************************************************)
(* Claims about the session, under Spec.                                   *)
(***************************************************************************)
\* C2: in the monitor loop a sample that yields nothing (a failing library
\* call, a tool that exceeds its timeout) writes no record for that tick,
\* raises nothing, and leaves the loop running and the method list as it
\* was; at the end of every tick each active method has been sampled once
\* on every tick so far.
C2_FailedSampleSkipsOneTick ==
    [][ /\ (pc = "loop" /\ loop_samples' # loop_samples /\ Val(sampled').value = <<>>) =>
              /\ files' = files
              /\ methods' = methods
              /\ exception' = ""
              /\ pc' \in {"loop", "sleep"}
        /\ (pc = "sleep" /\ pc' = "loop") =>
              \A k \in 1 .. Len(methods) : loop_samples[methods[k]] = ticks + 1
        /\ (pc \in {"loop", "sleep"}) => methods' = methods ]_vars

\* C2 witness: a method whose sample on the first tick gave nothing has just
\* been sampled again on the next tick, and that sample was recorded.
C2_Witness ==
    /\ pc \in {"loop", "sleep"}
    /\ ticks = 1
    /\ ~IsNone(sampled)
    /\ LET m == Val(sampled).method
       IN  /\ loop_samples[m] = 2
           /\ Val(sampled).value # <<>>
           /\ Len(files[m].lines) = 1
           /\ json_loads(files[m].lines[1]).data.timestamp = clock - 1
           /\ \E k \in 1 .. Len(methods) : methods[k] = m

\* C3: after construction the availability flags never change and no
\* backend is probed again; a source found unavailable is never in the
\* method list and its sample function is never called; the method list
\* never changes once it is built.
C3_AvailabilityDecidedOnce ==
    [][ /\ pc # "main" =>
              /\ amdsmi_available' = amdsmi_available
              /\ rocm_smi_available' = rocm_smi_available
              /\ probes' = probes
        /\ pc \in {"initial", "loop", "sleep", "finally"} => methods' = methods
        /\ ~amdsmi_available' =>
              /\ \A k \in 1 .. Len(methods') : methods'[k] # "amdsmi"
              /\ sample_calls'["amdsmi"] = 0
        /\ ~rocm_smi_available' =>
              /\ \A k \in 1 .. Len(methods') : methods'[k] # "rocm_smi"
              /\ sample_calls'["rocm_smi"] = 0 ]_vars

\* C3 witness: a whole session with the library enabled, probed once and
\* found unavailable, and the tool sampled on every tick.
C3_Witness ==
    /\ pc = "exited" /\ outcome = "return"
    /\ ENABLE_AMDSMI /\ ~amdsmi_available /\ rocm_smi_available
    /\ methods = <<"rocm_smi">>
    /\ ticks = MaxTicks
    /\ probes["amdsmi"] = 1 /\ sample_calls["amdsmi"] = 0
    /\ loop_samples["rocm_smi"] = MaxTicks + 1

\* C9: a source whose record stream file does not exist at report time still
\* gets a report, one that states zero devices.
C9_MissingFileStillReported ==
    \A m \in MethodNames :
        (~IsNone(final_metrics[m]) /\ ~files[m].exists) =>
            /\ Len(reports[m]) = 1
            /\ reports[m][1].figures.gpu_count = 0

\* C10: a session that was interrupted in its loop and whose finalization
\* raised nothing has, for every active source, an end bookend and exactly
\* one report.
C10_InterruptFinalizesEverySource ==
    (pc = "exited" /\ interrupted /\ outcome = "return") =>
        \A k \in 1 .. Len(methods) :
            /\ ~IsNone(final_metrics[methods[k]])
            /\ Len(reports[methods[k]]) = 1

\* C11: a session that got past startup (its method list is not empty) and
\* was not ended by an interrupt outside the loop ends with main returning:
\* no failure of a sample, of a write to the record stream, of a line of the
\* stream at report time or of the write of a report leaves monitor().
C11_NoFailureLeavesMonitor ==
    (pc = "exited" /\ methods # <<>> /\ outcome # "KeyboardInterrupt") =>
        outcome = "return"

\* The keys of a Canonical Metrics Record: device id, timestamp, source
\* name, power, temperature, utilization, VRAM usage, core clock, memory
\* clock, energy counter ticks, tick resolution.
CanonicalKeys ==
    {"gpu_id", "timestamp", "source_name", "power_watts", "temperature_celsius",
     "utilization_percent", "vram_usage_percent", "sclk_mhz", "mclk_mhz",
     "energy_accumulator", "counter_resolution"}

\* C12: every complete line _save_metrics wrote to a record stream carries a
\* key for every field of the Canonical Metrics Record, the source name
\* included.
C12_EveryLineHasEveryKey ==
    \A m \in MethodNames :
        \A k \in 1 .. Len(files[m].lines) :
            files[m].lines[k][1] = "json" =>
                CanonicalKeys \subseteq DOMAIN files[m].lines[k][2]

\* C13: a program that found no backend at startup has sampled nothing,
\* written no record and no report, and exits with code 1; every other
\* program exits with code 0.
C13_ExitCodeTellsNoBackend ==
    pc = "exited" =>
        IF ~(amdsmi_available \/ rocm_smi_available)
        THEN /\ exit_code = 1
             /\ \A m \in MethodNames :
                  sample_calls[m] = 0 /\ ~files[m].exists /\ reports[m] = <<>>
        ELSE exit_code = 0

\* C16: when a session ends with main returning, every active source has
\* exactly one report, whose figures are those of its own record stream and
\* its own start and end bookends, and a source that is not active has none.
C16_OneReportPerSourceFromItsOwnData ==
    (pc = "exited" /\ outcome = "return") =>
        \A m \in MethodNames :
            IF \E k \in 1 .. Len(methods) : methods[k] = m
            THEN /\ Len(reports[m]) = 1
                 /\ reports[m][1].figures =
                      report_figures(read_lines(files[m].lines, Len(files[m].lines)).acc,
                                     Val(initial_metrics[m]), Val(final_metrics[m]), m)
            ELSE reports[m] = <<>>

\* C17: the method list holds the library before the tool; within a tick
\* the methods before the loop position have been sampled once on this tick
\* and the others not yet, whatever the earlier samples returned, and at
\* the sleep that ends the tick every method has been sampled once on every
\* tick; the start and the end bookends are taken in the same order.
C17_EveryTickSamplesEachSourceOnceInOrder ==
    pc \in {"initial", "loop", "sleep", "finally"} =>
        /\ methods \in {<<"amdsmi">>, <<"rocm_smi">>, <<"amdsmi", "rocm_smi">>}
        /\ \A k \in 1 .. Len(methods) :
             /\ pc = "loop" =>
                  loop_samples[methods[k]] = ticks + (IF k < idx THEN 1 ELSE 0)
             /\ pc = "sleep" => loop_samples[methods[k]] = ticks + 1
             /\ pc = "initial" => (IsNone(initial_metrics[methods[k]]) <=> k >= idx)
             /\ pc = "finally" => (IsNone(final_metrics[methods[k]]) <=> k >= idx)

\* C17 witness: the last tick of a session on both sources is at its sleep;
\* the library returned nothing on any tick and the tool was sampled and
\* recorded on each.
C17_Witness ==
    /\ pc = "sleep"
    /\ ticks = MaxTicks
    /\ methods = <<"amdsmi", "rocm_smi">>
    /\ ~files["amdsmi"].exists
    /\ Len(files["rocm_smi"].lines) = MaxTicks + 1
    /\ loop_samples["amdsmi"] = MaxTicks + 1

(***************************************************************************)
(* Claims about _generate_report, under SpecReport.                        *)
(***************************************************************************)
\* The dict of line k of the file, and whether its power is known.
LineData(k) == json_loads(r_file[k]).data
KnownPower(k) == ~IsNone(LineData(k).power_watts)
\* The lines that open a timestamp group, the lines with known power in the
\* group of line k, and the sum of the power of a set of lines.
GroupOpeners ==
    {k \in 1 .. Len(r_file) :
        \A j \in 1 .. (k - 1) : LineData(j).timestamp # LineData(k).timestamp}
GroupKnown(k) ==
    {j \in 1 .. Len(r_file) :
        LineData(j).timestamp = LineData(k).timestamp /\ KnownPower(j)}
RECURSIVE PowerOf(_)
PowerOf(S) ==
    IF S = {} THEN 0
    ELSE LET j == CHOOSE x \in S : TRUE
         IN  Val(LineData(j).power_watts) + PowerOf(S \ {j})
\* The openers of the groups that hold a known power.
Counted == {k \in GroupOpeners : GroupKnown(k) # {}}

\* C8: the system power series of a report has one entry for every timestamp
\* group with at least one known power, in the order the groups appear in
\* the file, equal to the sum of the known powers of the group; a group with
\* no known power has no entry.
C8_SeriesSumsKnownPowerPerTimestamp ==
    ~IsNone(r_report) =>
        LET series == Val(r_report).figures.total_power_per_timestamp
        IN  /\ Len(series) = Cardinality(Counted)
            /\ \A k \in Counted :
                 series[Cardinality({j \in Counted : j <= k})] = PowerOf(GroupKnown(k))

\* C8 witness: a report on a file with a group that holds no known power
\* and a group that holds both a known, non-zero power and an unknown one.
C8_Witness ==
    /\ r_pc = "returned"
    /\ ~IsNone(r_report)
    /\ \E k \in GroupOpeners : GroupKnown(k) = {}
    /\ \E k \in Counted :
         /\ PowerOf(GroupKnown(k)) > 0
         /\ \E j \in 1 .. Len(r_file) :
              LineData(j).timestamp = LineData(k).timestamp /\ ~KnownPower(j)

=============================================================================
